---- MODULE Spec2Model ----
(***************************************************************************)
(* Galaxy infrastructure sidecar (src/sidecar/galaxy_sidecar.py).          *)
(*                                                                         *)
(* The process reads its configuration at module load, binds its socket in *)
(* uvicorn.run and then serves four GET routes on one asyncio event loop.  *)
(* A coroutine runs without interruption between two awaits, so every      *)
(* action below is one such uninterrupted stretch of a handler: /health is *)
(* cut at the awaits of its probe, the three /galaxy routes have no await  *)
(* and are one action each.  The target service, the client libraries, the *)
(* host metrics and the wall clock are the environment.                    *)
(***************************************************************************)
EXTENDS Integers, Sequences, FiniteSets, TLC

VARIABLES
    environ,      \* os.environ: INFRA_SERVICE_PORT and INFRA_SERVICE_TYPE
    phase,        \* "boot" | "crashed" | "loaded" | "serving"
    config,       \* the module-level INFRA_SERVICE_* settings (lines 35-37)
    START_TIME,   \* line 62
    now,          \* the wall clock read by datetime.now()
    route,        \* route[r]: the path request r asked for, "" before it arrives
    pc,           \* pc[r]: "idle", the await the handler is suspended at, or "done"
    probe,        \* probe[r]: the probes the dispatcher ran for request r
    outcome,      \* outcome[r][step]: what the step of r's probe met
    timer,        \* timer[r]: seconds spent inside asyncio.wait_for (line 98)
    conn,         \* conn[r]: r's connection to the target is open
    resp,         \* resp[r]: the HTTP response of request r
    infoLog       \* uptime_seconds of the /galaxy/info calls, in call order

vars == <<environ, phase, config, START_TIME, now, route, pc, probe, outcome,
          timer, conn, resp, infoLog>>

(***************************************************************************)
(* Bounds of the model.                                                    *)
(***************************************************************************)
NumRequests == 2      \* requests the server receives
MaxClock == 1         \* wall-clock readings are 0..MaxClock

Requests == 1..NumRequests

(***************************************************************************)
(* Configuration: os.getenv and int().                                     *)
(***************************************************************************)
DEFAULT_PORT == <<"5", "4", "3", "2">>

DEFAULT_TYPE == "postgres"

\* the values INFRA_SERVICE_PORT is set to, as sequences of characters: a
\* number, the empty string, and strings with a letter in them (none has a
\* blank, a sign or an underscore, which int() treats specially)
PortStrings == {<<"7", "0">>, <<>>, <<"x">>, <<"7", "x">>, <<"x", "7">>, <<"p", "g">>}

\* the values INFRA_SERVICE_TYPE is set to; "postgres" is what it defaults to
\* when unset (line 37), and is configured that way
TypeStrings == {"redis", "generic", "generic-tcp", "", "Postgres"}

\* an environment variable is {} when unset and {value} when set
Getenv(var, default) == IF var = {} THEN default ELSE CHOOSE v \in var : TRUE

IsDecimalDigit(c) == c \in {"0", "1", "2", "3", "4", "5", "6", "7", "8", "9"}

DecimalValue(c) ==
    CASE c = "0" -> 0 [] c = "1" -> 1 [] c = "2" -> 2 [] c = "3" -> 3 [] c = "4" -> 4
      [] c = "5" -> 5 [] c = "6" -> 6 [] c = "7" -> 7 [] c = "8" -> 8 [] c = "9" -> 9

\* int(s) raises ValueError unless s is a non-empty run of digits
IntParses(s) == s # <<>> /\ \A i \in 1..Len(s) : IsDecimalDigit(s[i])

RECURSIVE IntOf(_)
IntOf(s) ==
    IF s = <<>> THEN 0
    ELSE 10 * IntOf(SubSeq(s, 1, Len(s) - 1)) + DecimalValue(s[Len(s)])

NoConfig == [port |-> -1, type |-> ""]

(***************************************************************************)
(* The probes (lines 64-116).                                              *)
(***************************************************************************)
CONNECT_TIMEOUT == 5

\* check_infrastructure_health: the probes that run for a configured type
ProbesRunLoose(type) ==
    IF type \in {"postgres", "Postgres"} THEN {"postgres"}
    ELSE IF type \in {"redis", "Redis"} THEN {"redis"}
    ELSE {"tcp"}

ProbesRun(type) ==
    IF type = "postgres" THEN {"postgres"}
    ELSE IF type = "redis" THEN {"redis"}
    ELSE {"tcp"}

ProbeOf(r) == CHOOSE p \in probe[r] : TRUE

\* the steps of a probe's try body, in order
Steps(p) ==
    IF p = "tcp" THEN <<"connect", "close">>
    ELSE <<"import", "connect", "query", "close">>

\* variant: open_connection awaited bare, without asyncio.wait_for
NoTimeout(p, step) == FALSE

\* only the raw TCP connect is wrapped in asyncio.wait_for
HasTimeout(p, step) == p = "tcp" /\ step = "connect"

\* the ways the target can end a connect attempt
ConnectResults(p) ==
    {"ok", "ConnectionRefusedError"}
        \cup (IF p = "postgres" THEN {"InvalidPasswordError"} ELSE {})

\* what a step can meet: "ok", an exception, or "silent" (it never completes).
\* An await with no timeout has its fate fixed when it starts (the program sets
\* no bound of its own; a connect that the kernel or the client library gives
\* up on after their own wait is the exception case).  An await under
\* asyncio.wait_for is "pending": second after second the target either ends
\* it or lets the second pass, and staying silent for the whole timeout is
\* recorded as "silent" when the timeout fires.
Fates(p, step) ==
    CASE step = "import"  -> {"ok", "ImportError"}
      [] step = "connect" ->
             IF HasTimeout(p, "connect") THEN {"pending"}
             ELSE ConnectResults(p) \cup {"silent"}
      [] step = "query"   ->
             {"ok", "silent", IF p = "postgres" THEN "PostgresError" ELSE "ResponseError"}
      [] step = "close"   ->
             {"ok", "ConnectionResetError"}
                 \cup (IF p = "tcp" THEN {} ELSE {"silent"})

NoOutcome == [import |-> "-", connect |-> "-", query |-> "-", close |-> "-"]

\* the classes "except Exception" catches
CatchesOSErrorOnly(e) == e \in {"ConnectionRefusedError", "ConnectionResetError"}

Catches(e) ==
    e \in {"ImportError", "ConnectionRefusedError", "InvalidPasswordError", "PostgresError",
           "ResponseError", "ConnectionResetError", "TimeoutError"}

\* str(e): asyncio.TimeoutError carries no message
Str(e) == IF e = "TimeoutError" THEN "" ELSE e

SuccessDetails(p) ==
    CASE p = "postgres" -> "PostgreSQL connection successful"
      [] p = "redis"    -> "Redis ping successful"
      [] p = "tcp"      -> "TCP connection successful"

\* the value the probe hands to health_check: a HealthResult, or the exception
\* that left the probe
Returned(status, details) == [raised |-> "", status |-> status, details |-> details]

Healthy(p) == Returned("healthy", SuccessDetails(p))

\* variant: the except clause returns the success status
ExceptHealthy(e) == Returned("healthy", Str(e))

\* the except clause of a probe
Except(e) ==
    IF Catches(e) THEN Returned("unhealthy", Str(e))
    ELSE [raised |-> e, status |-> "", details |-> ""]

(***************************************************************************)
(* health_check after its await (lines 123-143).                           *)
(***************************************************************************)
MetricValues == {0, 100}

DiskTotal == 4

PsutilError == [error |-> "psutil"]

\* psutil's readings on an idle host and on a saturated one
PsutilReadings ==
    {[cpu_percent |-> v, memory_percent |-> v, used |-> IF v = 0 THEN 0 ELSE DiskTotal] :
        v \in MetricValues}

DiskPercent(used, total) == (used * 100) \div total

NoResp == [code |-> 0]

Http500(e) == [code |-> 500, raised |-> e]

OverallStatus(infra_health) ==
    IF infra_health.status = "healthy" THEN "healthy" ELSE "unhealthy"

HealthResponseCpuAware(infra, m) ==
    IF infra.raised # "" THEN Http500(infra.raised)
    ELSE IF m = PsutilError THEN Http500("psutil")
    ELSE [code |-> 200,
          status |-> IF m.cpu_percent >= 100 THEN "unhealthy" ELSE OverallStatus(infra),
          infrastructure_status |-> infra.status,
          checks |-> [infrastructure |-> [status |-> infra.status, details |-> infra.details],
                      system |-> [cpu_percent |-> m.cpu_percent,
                                  memory_percent |-> m.memory_percent,
                                  disk_percent |-> DiskPercent(m.used, DiskTotal)]]]

HealthResponse(infra, m) ==
    IF infra.raised # "" THEN Http500(infra.raised)
    ELSE IF m = PsutilError THEN Http500("psutil")
    ELSE [code |-> 200,
          status |-> OverallStatus(infra),
          infrastructure_status |-> infra.status,
          checks |-> [infrastructure |-> [status |-> infra.status, details |-> infra.details],
                      system |-> [cpu_percent |-> m.cpu_percent,
                                  memory_percent |-> m.memory_percent,
                                  disk_percent |-> DiskPercent(m.used, DiskTotal)]]]

\* the rest of the handler once the probe has handed back `infra`
HealthReturn(r, infra) ==
    /\ \E m \in PsutilReadings \cup {PsutilError} :
           resp' = [resp EXCEPT ![r] = HealthResponse(infra, m)]
    /\ pc' = [pc EXCEPT ![r] = "done"]

(***************************************************************************)
(* Initial state and startup (lines 28-37, 62, 191-200).                   *)
(***************************************************************************)
Init ==
    /\ environ \in [port : {{}} \cup {{s} : s \in PortStrings},
                     type : {{}} \cup {{t} : t \in TypeStrings}]
    /\ phase = "boot"
    /\ config = NoConfig
    /\ START_TIME = -1
    /\ now = 0
    /\ route = [r \in Requests |-> ""]
    /\ pc = [r \in Requests |-> "idle"]
    /\ probe = [r \in Requests |-> {}]
    /\ outcome = [r \in Requests |-> NoOutcome]
    /\ timer = [r \in Requests |-> 0]
    /\ conn = [r \in Requests |-> FALSE]
    /\ resp = [r \in Requests |-> NoResp]
    /\ infoLog = <<>>

requestVars == <<route, pc, probe, outcome, timer, conn, resp, infoLog>>

\* lenient variant: a port that does not parse is replaced by 0 and the process goes on
LoadConfigLenient ==
    /\ phase = "boot"
    /\ LET p == Getenv(environ.port, DEFAULT_PORT)
       IN  config' = [port |-> IF IntParses(p) THEN IntOf(p) ELSE 0,
                      type |-> Getenv(environ.type, DEFAULT_TYPE)]
    /\ START_TIME' = now
    /\ phase' = "loaded"
    /\ UNCHANGED <<environ, now, requestVars>>

\* module load: int() of a malformed port raises ValueError at line 36, before
\* line 37, line 62 and uvicorn.run are reached
LoadConfig ==
    /\ phase = "boot"
    /\ LET p == Getenv(environ.port, DEFAULT_PORT)
       IN  IF IntParses(p)
           THEN /\ config' = [port |-> IntOf(p), type |-> Getenv(environ.type, DEFAULT_TYPE)]
                /\ START_TIME' = now
                /\ phase' = "loaded"
           ELSE /\ phase' = "crashed"
                /\ UNCHANGED <<config, START_TIME>>
    /\ UNCHANGED <<environ, now, requestVars>>

\* uvicorn.run binds 0.0.0.0:3000 and starts serving
RunServer ==
    /\ phase = "loaded"
    /\ phase' = "serving"
    /\ UNCHANGED <<environ, config, START_TIME, now, requestVars>>

(***************************************************************************)
(* The environment: the wall clock and the one-second ticks of wait_for.   *)
(***************************************************************************)
appVars == <<environ, phase, config, START_TIME>>

\* time passes
ClockAdvance ==
    /\ phase \in {"loaded", "serving"}
    /\ now < MaxClock
    /\ now' = now + 1
    /\ UNCHANGED <<appVars, requestVars>>

\* datetime.now() is the naive local wall clock: an NTP step or the end of
\* daylight saving time sets it back
ClockStepBack ==
    /\ phase \in {"loaded", "serving"}
    /\ now > 0
    /\ now' = now - 1
    /\ UNCHANGED <<appVars, requestVars>>

Awaiting(r, step) == pc[r] = step

\* a second passes inside asyncio.wait_for without the target ending the connect
TimerTick(r) ==
    /\ Awaiting(r, "connect")
    /\ HasTimeout(ProbeOf(r), "connect")
    /\ timer[r] < CONNECT_TIMEOUT
    /\ timer' = [timer EXCEPT ![r] = @ + 1]
    /\ UNCHANGED <<appVars, now, route, pc, probe, outcome, conn, resp, infoLog>>

(***************************************************************************)
(* GET /health (lines 118-143) and the probe it awaits (lines 64-116).     *)
(***************************************************************************)
\* the handler up to the first await of the probe: dispatch, the import of the
\* client library, and the start of the connect
health_check(r) ==
    /\ phase = "serving"
    /\ pc[r] = "idle"
    /\ route' = [route EXCEPT ![r] = "/health"]
    /\ probe' = [probe EXCEPT ![r] = ProbesRun(config.type)]
    /\ LET p == CHOOSE q \in ProbesRun(config.type) : TRUE
       IN  \E imp \in (IF "import" \in {Steps(p)[i] : i \in 1..Len(Steps(p))}
                       THEN Fates(p, "import") ELSE {"-"}) :
              IF imp \in {"ok", "-"}
              THEN \E f \in Fates(p, "connect") :
                      /\ outcome' = [outcome EXCEPT ![r] = [@ EXCEPT !.import = imp,
                                                                       !.connect = f]]
                      /\ pc' = [pc EXCEPT ![r] = "connect"]
                      /\ UNCHANGED resp
              ELSE /\ outcome' = [outcome EXCEPT ![r] = [@ EXCEPT !.import = imp]]
                   /\ HealthReturn(r, Except(imp))
    /\ UNCHANGED <<appVars, now, timer, conn, infoLog>>

\* the connect completes: asyncpg.connect (69), the connection redis.ping()
\* opens (88), asyncio.open_connection (99)
ConnectCompletes(r) ==
    /\ Awaiting(r, "connect")
    /\ LET p == ProbeOf(r)
       IN  \E res \in (IF outcome[r].connect = "pending"
                        THEN (IF timer[r] < CONNECT_TIMEOUT THEN ConnectResults(p) ELSE {})
                        ELSE {outcome[r].connect} \ {"silent"}) :
              IF res = "ok"
              THEN /\ conn' = [conn EXCEPT ![r] = TRUE]
                   /\ \E f \in Fates(p, IF p = "tcp" THEN "close" ELSE "query") :
                         /\ outcome' = [outcome EXCEPT ![r] =
                                           IF p = "tcp"
                                           THEN [@ EXCEPT !.connect = res, !.close = f]
                                           ELSE [@ EXCEPT !.connect = res, !.query = f]]
                         /\ pc' = [pc EXCEPT ![r] = IF p = "tcp" THEN "close" ELSE "query"]
                   /\ UNCHANGED resp
              ELSE /\ outcome' = [outcome EXCEPT ![r] = [@ EXCEPT !.connect = res]]
                   /\ HealthReturn(r, Except(res))
                   /\ UNCHANGED conn
    /\ timer' = [timer EXCEPT ![r] = 0]
    /\ UNCHANGED <<appVars, now, route, probe, infoLog>>

\* asyncio.wait_for gives up after timeout=5.0 and raises TimeoutError
ConnectTimeout(r) ==
    /\ Awaiting(r, "connect")
    /\ HasTimeout(ProbeOf(r), "connect")
    /\ timer[r] = CONNECT_TIMEOUT
    /\ outcome' = [outcome EXCEPT ![r] = [@ EXCEPT !.connect = "silent"]]
    /\ HealthReturn(r, Except("TimeoutError"))
    /\ UNCHANGED <<appVars, now, route, probe, timer, conn, infoLog>>

\* conn.execute('SELECT 1') (76) or the PING of redis.ping() (88) completes;
\* an exception goes to the except clause and skips the close
QueryCompletes(r) ==
    /\ Awaiting(r, "query")
    /\ outcome[r].query \notin {"silent", "-"}
    /\ IF outcome[r].query = "ok"
       THEN /\ \E f \in Fates(ProbeOf(r), "close") :
                  outcome' = [outcome EXCEPT ![r] = [@ EXCEPT !.close = f]]
            /\ pc' = [pc EXCEPT ![r] = "close"]
            /\ UNCHANGED resp
       ELSE /\ HealthReturn(r, Except(outcome[r].query))
            /\ UNCHANGED outcome
    /\ UNCHANGED <<appVars, now, route, probe, timer, conn, infoLog>>

\* conn.close() (77), redis.close() (89), writer.wait_closed() (103) completes:
\* the connection is gone whether or not the call raised
CloseCompletes(r) ==
    /\ Awaiting(r, "close")
    /\ outcome[r].close \notin {"silent", "-"}
    /\ conn' = [conn EXCEPT ![r] = FALSE]
    /\ HealthReturn(r, IF outcome[r].close = "ok" THEN Healthy(ProbeOf(r))
                       ELSE Except(outcome[r].close))
    /\ UNCHANGED <<appVars, now, route, probe, outcome, timer, infoLog>>

(***************************************************************************)
(* GET /galaxy/info, /galaxy/root, /galaxy/dependencies (lines 145-189).   *)
(***************************************************************************)
Uptime == now - START_TIME

Answer(r, path, body) ==
    /\ phase = "serving"
    /\ pc[r] = "idle"
    /\ route' = [route EXCEPT ![r] = path]
    /\ pc' = [pc EXCEPT ![r] = "done"]
    /\ resp' = [resp EXCEPT ![r] = body]

\* variant that restarts the uptime clock on every call
service_info_resets(r) ==
    /\ Answer(r, "/galaxy/info",
              [code |-> 200, version |-> "1.0.0", infrastructure_type |-> config.type,
               galaxy_managed |-> TRUE, uptime_seconds |-> 0])
    /\ infoLog' = Append(infoLog, 0)
    /\ START_TIME' = now
    /\ UNCHANGED <<environ, phase, config, now, probe, outcome, timer, conn>>

service_info(r) ==
    /\ Answer(r, "/galaxy/info",
              [code |-> 200, version |-> "1.0.0", infrastructure_type |-> config.type,
               galaxy_managed |-> TRUE, uptime_seconds |-> Uptime])
    /\ infoLog' = Append(infoLog, Uptime)
    /\ UNCHANGED <<appVars, now, probe, outcome, timer, conn>>

ENDPOINTS == <<"/health", "/galaxy/info", "/galaxy/root", "/galaxy/dependencies">>

root(r) ==
    /\ Answer(r, "/galaxy/root",
              [code |-> 200, message |-> <<"Galaxy Infrastructure Sidecar for ", config.type>>,
               infrastructure |-> [type |-> config.type, port |-> config.port],
               endpoints |-> ENDPOINTS])
    /\ UNCHANGED <<appVars, now, probe, outcome, timer, conn, infoLog>>

dependencies(r) ==
    /\ Answer(r, "/galaxy/dependencies",
              [code |-> 200, dependencies |-> <<>>,
               infrastructure_service |-> [type |-> config.type, port |-> config.port,
                                           galaxy_sidecar |-> TRUE]])
    /\ UNCHANGED <<appVars, now, probe, outcome, timer, conn, infoLog>>

(***************************************************************************)
(* Specifications.                                                         *)
(***************************************************************************)
Next ==
    \/ LoadConfig
    \/ RunServer
    \/ ClockAdvance
    \/ ClockStepBack
    \/ \E r \in Requests : health_check(r)
    \/ \E r \in Requests : TimerTick(r)
    \/ \E r \in Requests : ConnectCompletes(r)
    \/ \E r \in Requests : ConnectTimeout(r)
    \/ \E r \in Requests : QueryCompletes(r)
    \/ \E r \in Requests : CloseCompletes(r)
    \/ \E r \in Requests : service_info(r)
    \/ \E r \in Requests : root(r)
    \/ \E r \in Requests : dependencies(r)

Spec == Init /\ [][Next]_vars

\* the event loop runs every callback that is ready: a step whose answer has
\* arrived, and a timer that is armed
Progress(r) ==
    \/ TimerTick(r)
    \/ ConnectCompletes(r)
    \/ ConnectTimeout(r)
    \/ QueryCompletes(r)
    \/ CloseCompletes(r)

FairSpec == Spec /\ \A r \in Requests : WF_vars(Progress(r))

(***************************************************************************)
(* Properties.                                                             *)
(***************************************************************************)
IsHealth(r) == route[r] = "/health"

Done(r) == pc[r] = "done"

Answered200(r) == IsHealth(r) /\ Done(r) /\ resp[r].code = 200

StepsOf(r) == {Steps(ProbeOf(r))[i] : i \in 1..Len(Steps(ProbeOf(r)))}

\* every step of the probe's try body completed without raising
ProbeSucceeded(r) == \A st \in StepsOf(r) : outcome[r][st] = "ok"

\* some step of the probe met an exception or ran into the timeout
ProbeFailed(r) ==
    \/ \E st \in StepsOf(r) : outcome[r][st] \notin {"ok", "-", "silent"}
    \/ outcome[r].connect = "silent" /\ timer[r] = CONNECT_TIMEOUT

PortParses == IntParses(Getenv(environ.port, DEFAULT_PORT))

\* C1: whatever the configured type and however the probe fails, the probe hands
\* health_check a result and never an exception: a finished /health request
\* whose metrics read succeeded has HTTP 200 and a status, and the only 5xx is
\* the one the metrics read causes.
C1_HealthNeverRaises ==
    \A r \in Requests :
        IsHealth(r) /\ Done(r) =>
            /\ resp[r].code \in {200, 500}
            /\ resp[r].code = 500 => resp[r].raised = "psutil"
            /\ resp[r].code = 200 => resp[r].status \in {"healthy", "unhealthy"}

\* two finished /health requests, one whose connect failed and one whose
\* query or ping failed, both answered 200
C1_Witness ==
    \E r, q \in Requests :
        /\ Answered200(r) /\ outcome[r].connect = "ConnectionRefusedError"
        /\ Answered200(q) /\ outcome[q].query \in {"PostgresError", "ResponseError"}
        /\ resp[r].status = "unhealthy" /\ resp[q].status = "unhealthy"

\* C2: for each probe the reported status is "healthy" exactly when the probe
\* succeeded, that is when every step of its try body (client import, connect,
\* query or ping, close) completed without an error; "healthy" never comes out
\* of a call whose connect or query/ping step failed.
C2_HealthyIffProbeSucceeds ==
    \A r \in Requests :
        Answered200(r) =>
            /\ resp[r].checks.infrastructure.status = "healthy" <=> ProbeSucceeded(r)
            /\ resp[r].checks.infrastructure.status \in {"healthy", "unhealthy"}
            /\ resp[r].checks.infrastructure.status = "healthy" =>
                   /\ outcome[r].connect = "ok"
                   /\ "query" \in StepsOf(r) => outcome[r].query = "ok"

\* one request found the target reachable and responsive, another found its
\* query or ping failing
C2_Witness ==
    \E r, q \in Requests :
        /\ Answered200(r) /\ ProbeSucceeded(r)
        /\ resp[r].checks.infrastructure.status = "healthy"
        /\ Answered200(q) /\ outcome[q].connect = "ok" /\ ProbeFailed(q)
        /\ resp[q].checks.infrastructure.status = "unhealthy"

\* C3: in every /health response the overall status is "healthy" exactly when
\* infrastructure_status is, infrastructure_status is checks.infrastructure.status,
\* and two responses with the same probe status have the same overall status
\* whatever their cpu, memory and disk figures.
C3_OverallFollowsInfra ==
    \A r \in Requests :
        Answered200(r) =>
            /\ resp[r].status = "healthy" <=> resp[r].infrastructure_status = "healthy"
            /\ resp[r].infrastructure_status = resp[r].checks.infrastructure.status
            /\ \A q \in Requests :
                   Answered200(q)
                   /\ resp[q].checks.infrastructure.status
                          = resp[r].checks.infrastructure.status
                   => resp[q].status = resp[r].status

\* two healthy responses, one sampled on an idle host and one on a saturated host
C3_Witness ==
    \E r, q \in Requests :
        /\ Answered200(r) /\ Answered200(q)
        /\ resp[r].status = "healthy" /\ resp[q].status = "healthy"
        /\ resp[r].checks.system.cpu_percent = 0
        /\ resp[q].checks.system.cpu_percent = 100
        /\ resp[q].checks.system.disk_percent = 100

\* the steps a probe leaves a trace of
RanOnly(r, p) ==
    /\ probe[r] = {p}
    /\ p = "tcp" => outcome[r].import = "-" /\ outcome[r].query = "-"
    /\ p # "tcp" => outcome[r].import # "-" /\ timer[r] = 0

\* C4: the dispatcher matches the configured type exactly: "postgres" runs only
\* the postgres probe, "redis" only the redis probe, every other string (also
\* "generic", "generic-tcp", "" and "Postgres") only the raw TCP probe; one probe
\* runs per call.
C4_ExactDispatch ==
    \A r \in Requests :
        IsHealth(r) =>
            /\ Cardinality(probe[r]) = 1
            /\ config.type = "postgres" => RanOnly(r, "postgres")
            /\ config.type = "redis" => RanOnly(r, "redis")
            /\ config.type \notin {"postgres", "redis"} => RanOnly(r, "tcp")

\* type "Postgres" was served by the raw TCP probe
C4_Witness ==
    \E r \in Requests :
        /\ config.type = "Postgres" /\ Answered200(r)
        /\ probe[r] = {"tcp"} /\ outcome[r].close = "ok"

IsTcp(r) == IsHealth(r) /\ probe[r] = {"tcp"}

\* C5 as stated: a generic TCP probe of a host that accepts the connection and
\* then never responds reports unhealthy.
C5_AcceptingHostIsUnhealthy ==
    \A r \in Requests :
        IsTcp(r) /\ Answered200(r) /\ outcome[r].connect = "ok" /\ outcome[r].close = "ok"
            => resp[r].status = "unhealthy"

\* C5 as amended: a generic TCP probe never waits without bound. While it waits
\* for the connect the 5-second timer runs and something can always happen
\* next; a host that never completes the connect yields unhealthy when the 5
\* seconds are up; a host that accepts the connection yields healthy before
\* they are, whether or not it ever sends anything, since the probe only
\* connects and closes.
C5_ConnectTimeoutEnforced ==
    \A r \in Requests :
        IsTcp(r) =>
            /\ timer[r] <= 5
            /\ ~Done(r) => ENABLED Progress(r)
            /\ Done(r) /\ outcome[r].connect = "silent" =>
                   /\ timer[r] = 5
                   /\ resp[r].code = 200 => resp[r].status = "unhealthy"
            /\ Answered200(r) /\ outcome[r].connect = "ok" /\ outcome[r].close = "ok" =>
                   resp[r].status = "healthy"

\* one probe ran into the connect timeout, another was accepted by the host
C5_Witness ==
    \E r, q \in Requests :
        /\ IsTcp(r) /\ Answered200(r) /\ outcome[r].connect = "silent"
        /\ timer[r] = CONNECT_TIMEOUT /\ resp[r].status = "unhealthy"
        /\ IsTcp(q) /\ Answered200(q) /\ outcome[q].connect = "ok"
        /\ resp[q].status = "healthy"

\* C6: every probe bounds its waits, so a /health request eventually has a
\* response whatever the target does; in particular one that is waiting for the
\* answer to its query or ping, on a connection already established.
C6_EveryHealthRequestResponds ==
    \A r \in Requests : (pc[r] = "query") ~> Done(r)

\* C7: once the /health response is produced, the connection the request
\* opened is closed, on the success path and on every failure path.
C7_ConnectionClosedOnResponse ==
    \A r \in Requests : Done(r) => ~conn[r]

\* what belongs to request r alone
Locals(r) == <<route[r], pc[r], probe[r], outcome[r], timer[r], conn[r], resp[r]>>

\* C8: whatever the interleaving of the requests, no step of a handler changes
\* the configuration or START_TIME once the server is serving, a step of one
\* request leaves everything of every other request as it was, a response once
\* given is not changed, and the probe status a /health response carries is the
\* one of its own request's probe.
C8_HandlersShareNothing ==
    [][phase = "serving" =>
          /\ config' = config /\ START_TIME' = START_TIME /\ environ' = environ
          /\ \A r \in Requests :
                /\ resp[r] # NoResp => resp'[r] = resp[r]
                /\ Locals(r)' # Locals(r) =>
                       \A q \in Requests \ {r} : Locals(q)' = Locals(q)
                /\ (resp'[r] # resp[r] /\ route'[r] = "/health" /\ resp'[r].code = 200) =>
                       (resp'[r].infrastructure_status = "healthy"
                            <=> \A st \in {Steps(CHOOSE p \in probe'[r] : TRUE)[i] :
                                             i \in 1..Len(Steps(CHOOSE p \in probe'[r] : TRUE))} :
                                   outcome'[r][st] = "ok")]_vars

\* two /health requests were in flight together and came out differently, and
\* a /galaxy/info request was served in between
C8_Witness ==
    \E r, q \in Requests :
        /\ Answered200(r) /\ resp[r].status = "healthy"
        /\ IsHealth(q) /\ ~Done(q) /\ pc[q] = "query" /\ outcome[q].query # "ok"

\* C9: the uptime_seconds of successive /galaxy/info calls never decrease.
C9_UptimeNonDecreasing ==
    \A i, j \in DOMAIN infoLog : i < j => infoLog[i] <= infoLog[j]

\* C10: a port that int() rejects stops the process at module load: the socket
\* is never bound and no request is ever handled; whenever the configuration
\* is loaded or the server serves, the port parsed and is the configured one.
C10_MalformedPortIsFatal ==
    /\ ~PortParses =>
           /\ phase \in {"boot", "crashed"}
           /\ config = NoConfig
           /\ \A r \in Requests : pc[r] = "idle" /\ resp[r] = NoResp
    /\ phase \in {"loaded", "serving"} =>
           PortParses /\ config.port = IntOf(Getenv(environ.port, DEFAULT_PORT))
    /\ (\E r \in Requests : resp[r] # NoResp) => phase = "serving"

\* the process died at module load on a port that does not parse
C10_Witness == phase = "crashed" /\ ~PortParses /\ environ.port # {}

====
